---- MODULE Spec2Model ----
(***************************************************************************)
(* Model of class FilePath (src/file_path.hpp): the path data model, its   *)
(* parser (set / split), its serializer (to_str), composition (operator/)  *)
(* and parent_path.                                                        *)
(*                                                                         *)
(* A std::string is a sequence of character codes (0..255).  A size_t is   *)
(* an integer; the one value of size_t that the code reaches beyond the    *)
(* string sizes is 2^64-1 (std::string::npos, and 0 - 1), written -1 here, *)
(* so that "size() - 1" of an empty string is npos as it is in the code.   *)
(***************************************************************************)
EXTENDS Integers, Sequences, FiniteSets, TLC

\* ------------------------------------------------------------------ bounds

\* Longest path string given to set() in the single-path driver.
MaxLen == 4

\* Longest path string given to each operand constructor in the composition driver.
MaxOperandLen == 3

\* ------------------------------------------------------- program constants

UNIX == 0
WINDOWS == 1
Platforms == {UNIX, WINDOWS}

Slash == 47
Backslash == 92
Colon == 58
Dot == 46
AsciiLimit == 128

npos == -1

\* Characters path strings are drawn from: both separators, ':', '.', the
\* ASCII letter 'C' and the non-ASCII byte 0xC9.
Chars == {Slash, Backslash, Colon, Dot, 67, 201}

\* Characters of the operands of the composition driver.
OperandChars == {Slash, Colon, Dot, 67}

RECURSIVE StringsOver(_, _)
StringsOver(cs, n) ==
    IF n = 0 THEN {<<>>}
    ELSE LET shorter == StringsOver(cs, n - 1)
         IN  shorter \cup {Append(s, c) : s \in {t \in shorter : Len(t) = n - 1}, c \in cs}

PathStrings == StringsOver(Chars, MaxLen)
OperandStrings == StringsOver(OperandChars, MaxOperandLen)

\* ------------------------------------------------------------ std::string

\* std::string::find_first_of(delim, pos): 0-based index of the first
\* character at or after pos that is in delim, npos when there is none.
find_first_of(origin, delim, pos) ==
    LET hits == {i \in 0..(Len(origin) - 1) : i >= pos /\ origin[i + 1] \in delim}
    IN  IF hits = {} THEN npos
        ELSE CHOOSE i \in hits : \A j \in hits : i <= j

\* std::string::substr(pos, count), pos <= size(): count is a size_t, a
\* negative number here stands for a value near 2^64; either way the
\* substring ends at the end of the string at the latest.
substr(origin, pos, count) ==
    LET avail == Len(origin) - pos
        n == IF count < 0 \/ count > avail THEN avail ELSE count
    IN  SubSeq(origin, pos + 1, pos + n)

\* std::isalpha in the "C" locale on an ASCII character.
isalpha(c) == (c >= 65 /\ c <= 90) \/ (c >= 97 /\ c <= 122)

\* ---------------------------------------------------------------- FilePath

FilePathOf(platform, path, is_absolute) ==
    [platform_ |-> platform, path_ |-> path, is_absolute_ |-> is_absolute]

\* FilePath(): platform_(NATIVE), is_absolute_(false), no segments.
DefaultFilePath(NATIVE) == FilePathOf(NATIVE, <<>>, FALSE)

NoValue == [none |-> TRUE]

RECURSIVE split_loop(_, _, _, _, _)
split_loop(origin, delim, last_pos, find_pos, result) ==
    IF last_pos = npos THEN result
    ELSE LET pushed == IF find_pos # last_pos
                       THEN Append(result, substr(origin, last_pos, find_pos - last_pos))
                       ELSE result
         IN  IF find_pos = npos \/ find_pos = Len(origin) - 1
             THEN pushed
             ELSE split_loop(origin, delim, find_pos + 1,
                             find_first_of(origin, delim, find_pos + 1), pushed)

split(origin, delim) ==
    split_loop(origin, delim, 0, find_first_of(origin, delim, 0), <<>>)

\* set with the UNIX absolute flag taken from the segments found instead of
\* from the string: is_absolute_ = !path_.empty() && path_str[0] == '/'.
set_absolute_needs_segment(path_str, platform) ==
    IF platform = WINDOWS
    THEN IF /\ Len(path_str) >= 3
            /\ path_str[1] < AsciiLimit
            /\ isalpha(path_str[1])
            /\ path_str[2] = Colon
            /\ path_str[3] \in {Backslash, Slash}
         THEN FilePathOf(platform,
                         <<SubSeq(path_str, 1, 2)>>
                             \o split(SubSeq(path_str, 4, Len(path_str)), {Slash, Backslash}),
                         TRUE)
         ELSE FilePathOf(platform, split(path_str, {Slash, Backslash}), FALSE)
    ELSE FilePathOf(platform, split(path_str, {Slash}),
                    /\ split(path_str, {Slash}) # <<>>
                    /\ Len(path_str) > 0
                    /\ path_str[1] = Slash)

\* void set(const std::string& path_str, Platform platform): the object's
\* three members after the call.
set(path_str, platform) ==
    IF platform = WINDOWS
    THEN IF /\ Len(path_str) >= 3
            /\ path_str[1] < AsciiLimit
            /\ isalpha(path_str[1])
            /\ path_str[2] = Colon
            /\ path_str[3] \in {Backslash, Slash}
         THEN FilePathOf(platform,
                         <<SubSeq(path_str, 1, 2)>>
                             \o split(SubSeq(path_str, 4, Len(path_str)), {Slash, Backslash}),
                         TRUE)
         ELSE FilePathOf(platform, split(path_str, {Slash, Backslash}), FALSE)
    ELSE FilePathOf(platform, split(path_str, {Slash}),
                    Len(path_str) > 0 /\ path_str[1] = Slash)

empty(fp) == fp.path_ = <<>>

filename(fp) == IF empty(fp) THEN <<>> ELSE fp.path_[Len(fp.path_)]

\* The contents of the stringstream of to_str before the final pop_back.
RECURSIVE to_str_join(_, _, _)
to_str_join(path, sep, i) ==
    IF i > Len(path) THEN <<>>
    ELSE path[i] \o <<sep>> \o to_str_join(path, sep, i + 1)

to_str_buffer(fp, platform) ==
    (IF fp.is_absolute_ /\ fp.platform_ = UNIX THEN <<Slash>> ELSE <<>>)
        \o to_str_join(fp.path_, IF platform = UNIX THEN Slash ELSE Backslash, 1)

\* std::string::pop_back().  On an empty string the behaviour is undefined:
\* a checked build aborts, an unchecked one returns a string whose length
\* field is corrupt, which a reader sees as empty or as garbage.
pop_back(s) ==
    IF Len(s) > 0
    THEN {[fault |-> "none", str |-> SubSeq(s, 1, Len(s) - 1)]}
    ELSE {[fault |-> "abort", str |-> <<>>]}
             \cup {[fault |-> "corrupt", str |-> g] : g \in {<<>>, <<Slash>>, <<67>>}}

\* std::string to_str(Platform platform) const: the possible outcomes.
to_str(fp, platform) == pop_back(to_str_buffer(fp, platform))

\* Whether to_str calls pop_back on an empty result.
to_str_pops_empty(fp, platform) == to_str_buffer(fp, platform) = <<>>

RECURSIVE push_back_all(_, _, _)
push_back_all(path, other_path, i) ==
    IF i > Len(other_path) THEN path
    ELSE push_back_all(Append(path, other_path[i]), other_path, i + 1)

\* operator/ without its second check (platform_ != other.platform_).
operator_div_any_platform(this, other) ==
    IF other.is_absolute_
    THEN [thrown |-> "FilePath::operator/(): expected a relative path!", value |-> NoValue]
    ELSE [thrown |-> "none",
          value |-> [this EXCEPT !.path_ = push_back_all(this.path_, other.path_, 1)]]

\* FilePath operator/(const FilePath &other) const: what is thrown, and the
\* value returned when nothing is.
operator_div(this, other) ==
    IF other.is_absolute_
    THEN [thrown |-> "FilePath::operator/(): expected a relative path!", value |-> NoValue]
    ELSE IF this.platform_ # other.platform_
    THEN [thrown |-> "FilePath::operator/(): expected a path of the same type!",
          value |-> NoValue]
    ELSE [thrown |-> "none",
          value |-> [this EXCEPT !.path_ = push_back_all(this.path_, other.path_, 1)]]

\* The local `result` of parent_path before the absolute resolution.
parent_path_result(this) ==
    IF ~empty(this) /\ filename(this) # <<Dot>> /\ filename(this) # <<Dot, Dot>>
    THEN [this EXCEPT !.path_ = SubSeq(this.path_, 1, Len(this.path_) - 1)]
    ELSE [this EXCEPT !.path_ = Append(this.path_, <<Dot, Dot>>)]

\* What realpath / GetFullPathNameA may write to tmp when it succeeds.
os_full_paths(NATIVE) ==
    IF NATIVE = UNIX THEN {<<Slash>>, <<Slash, 67>>}
    ELSE {<<67, Colon, Backslash>>, <<67, Colon, Backslash, 67>>}

\* ------------------------------------------------------------------- state

VARIABLES
    native,         \* NATIVE of this build (#ifdef __unix__)
    path_str,       \* the string the driver parses
    platform,       \* the platform it is parsed in
    other_str,      \* the string of the second operand (composition driver)
    other_platform, \* its platform
    pc,             \* the driver's position
    fp,             \* the FilePath object operated on
    other,          \* the right operand of operator/
    target,         \* the platform argument of the last to_str call
    str,            \* the std::string the last to_str returned
    fault,          \* "none", or how the undefined pop_back showed
    popped_empty,   \* whether a to_str has called pop_back on an empty result
    reparsed,       \* the FilePath set from str
    result,         \* the local `result` of parent_path
    handed,         \* the string parent_path handed to realpath / GetFullPathNameA
    returned,       \* the FilePath a call returned, NoValue when it threw
    thrown          \* the message of the exception a call threw, "none"

vars == <<native, path_str, platform, other_str, other_platform, pc, fp, other, target,
          str, fault, popped_empty, reparsed, result, handed, returned, thrown>>

inputs == <<native, path_str, platform, other_str, other_platform>>

\* ------------------------------------------------------ single-path driver

Init ==
    /\ native \in Platforms
    /\ path_str \in PathStrings
    /\ platform \in Platforms
    /\ other_str = <<>>
    /\ other_platform = native
    /\ pc = "new"
    /\ fp = DefaultFilePath(native)
    /\ other = DefaultFilePath(native)
    /\ target = native
    /\ str = <<>>
    /\ fault = "none"
    /\ popped_empty = FALSE
    /\ reparsed = NoValue
    /\ result = NoValue
    /\ handed = <<>>
    /\ returned = NoValue
    /\ thrown = "none"

\* fp.set(path_str, platform)
Set ==
    /\ pc = "new"
    /\ fp' = set(path_str, platform)
    /\ pc' = "set"
    /\ UNCHANGED <<inputs, other, target, str, fault, popped_empty, reparsed, result,
                   handed, returned, thrown>>

\* str = fp.to_str(t), on the default-constructed or on the parsed object
ToStr ==
    /\ pc \in {"new", "set"}
    /\ \E t \in Platforms : \E o \in to_str(fp, t) :
          /\ target' = t
          /\ str' = o.str
          /\ fault' = o.fault
          /\ popped_empty' = to_str_pops_empty(fp, t)
          /\ pc' = IF o.fault = "abort" THEN "aborted"
                   ELSE IF pc = "new" THEN "str_default" ELSE "str"
    /\ UNCHANGED <<inputs, fp, other, reparsed, result, handed, returned, thrown>>

\* reparsed.set(str, target)
Reparse ==
    /\ pc = "str"
    /\ reparsed' = set(str, target)
    /\ pc' = "reparsed"
    /\ UNCHANGED <<inputs, fp, other, target, str, fault, popped_empty, result, handed,
                   returned, thrown>>

\* returned = fp.parent_path(), make_absolute() included
ParentPath ==
    /\ pc = "set"
    /\ result' = parent_path_result(fp)
    /\ IF fp.is_absolute_
       THEN \E o \in to_str(result', native) :
               /\ handed' = o.str
               /\ fault' = o.fault
               /\ popped_empty' = to_str_pops_empty(result', native)
               /\ target' = native
               /\ \/ /\ o.fault = "abort"
                     /\ pc' = "aborted"
                     /\ UNCHANGED <<returned, thrown>>
                  \/ /\ o.fault # "abort"
                     /\ pc' = "parent"
                     /\ thrown' = "Internal error in make_absolute"
                     /\ returned' = NoValue
                  \/ /\ o.fault # "abort"
                     /\ pc' = "parent"
                     /\ \E tmp \in os_full_paths(native) : returned' = set(tmp, native)
                     /\ UNCHANGED thrown
       ELSE /\ returned' = result'
            /\ pc' = "parent"
            /\ UNCHANGED <<handed, fault, popped_empty, target, thrown>>
    /\ UNCHANGED <<inputs, fp, other, str, reparsed>>

Next == Set \/ ToStr \/ Reparse \/ ParentPath

Spec == Init /\ [][Next]_vars

\* ------------------------------------------------------ composition driver

InitCompose ==
    /\ native \in Platforms
    /\ path_str \in OperandStrings
    /\ platform \in Platforms
    /\ other_str \in OperandStrings
    /\ other_platform \in Platforms
    /\ pc = "operands"
    /\ fp = set(path_str, platform)
    /\ other = set(other_str, other_platform)
    /\ target = native
    /\ str = <<>>
    /\ fault = "none"
    /\ popped_empty = FALSE
    /\ reparsed = NoValue
    /\ result = NoValue
    /\ handed = <<>>
    /\ returned = NoValue
    /\ thrown = "none"

\* returned = fp / other
Compose ==
    /\ pc = "operands"
    /\ LET o == operator_div(fp, other)
       IN  /\ returned' = o.value
           /\ thrown' = o.thrown
    /\ pc' = "composed"
    /\ UNCHANGED <<inputs, fp, other, target, str, fault, popped_empty, reparsed, result,
                   handed>>

NextCompose == Compose

SpecCompose == InitCompose /\ [][NextCompose]_vars

\* ------------------------------------------------- notions of the claims

\* The separator characters of a syntax.
Separators(P) == IF P = UNIX THEN {Slash} ELSE {Slash, Backslash}

\* The separator a serialization in syntax P joins with.
JoinSeparator(P) == IF P = UNIX THEN Slash ELSE Backslash

\* Length of the longest prefix of s that holds no character of seps.
RECURSIVE RunLength(_, _)
RunLength(s, seps) ==
    IF s = <<>> \/ Head(s) \in seps THEN 0 ELSE 1 + RunLength(Tail(s), seps)

\* The Segment Splitter as specified: the maximal non-separator substrings
\* of s, in order.
RECURSIVE MaximalSegments(_, _)
MaximalSegments(s, seps) ==
    IF s = <<>> THEN <<>>
    ELSE IF Head(s) \in seps THEN MaximalSegments(Tail(s), seps)
    ELSE LET n == RunLength(s, seps)
         IN  <<SubSeq(s, 1, n)>> \o MaximalSegments(SubSeq(s, n + 1, Len(s)), seps)

\* The segments joined by sep, with no trailing separator.
RECURSIVE Joined(_, _)
Joined(path, sep) ==
    IF path = <<>> THEN <<>>
    ELSE IF Len(path) = 1 THEN path[1]
    ELSE path[1] \o <<sep>> \o Joined(Tail(path), sep)

\* The serialization of a value as specified.
Serialized(v, P) ==
    (IF v.is_absolute_ /\ v.platform_ = UNIX THEN <<JoinSeparator(P)>> ELSE <<>>)
        \o Joined(v.path_, JoinSeparator(P))

IsAsciiLetter(c) == c \in (65..90) \cup (97..122)

IsDriveDesignator(seg) == Len(seg) = 2 /\ IsAsciiLetter(seg[1]) /\ seg[2] = Colon

HasDrivePrefix(raw) ==
    /\ Len(raw) >= 3
    /\ IsAsciiLetter(raw[1])
    /\ raw[2] = Colon
    /\ raw[3] \in {Backslash, Slash}

OnlySeparators(raw, P) == raw # <<>> /\ \A i \in 1..Len(raw) : raw[i] \in Separators(P)

WellFormedSegments(v) ==
    \A i \in 1..Len(v.path_) :
        /\ v.path_[i] # <<>>
        /\ \A k \in 1..Len(v.path_[i]) : v.path_[i][k] \notin Separators(v.platform_)

IsPathValue(v) == v # NoValue

\* ------------------------------------------------------------------ claims

\* C1: round trip.  Parsing the serialization (in the value's own syntax) of
\* a parsed string gives back the same value: same syntax, same absolute
\* flag, same segments.  Stated on the runs in which to_str has defined
\* behaviour.
C1_RoundTrip ==
    (pc = "reparsed" /\ target = platform /\ fault = "none") => reparsed = fp

\* C2: compose (operator/) throws and returns no value exactly when the
\* addend is absolute or the syntaxes differ; otherwise it returns the base's
\* syntax and absolute flag with the base's segments followed by the addend's,
\* nothing resolved; base and addend are unchanged either way.
C2_Compose ==
    pc = "composed" =>
        LET fails == other.is_absolute_ \/ fp.platform_ # other.platform_
        IN  /\ fails => (thrown # "none" /\ returned = NoValue)
            /\ ~fails =>
                  /\ thrown = "none"
                  /\ returned.platform_ = fp.platform_
                  /\ returned.is_absolute_ = fp.is_absolute_
                  /\ returned.path_ = fp.path_ \o other.path_
            /\ fp = set(path_str, platform)
            /\ other = set(other_str, other_platform)

\* C2's case: an absolute WINDOWS base composed with a relative addend that
\* holds a ".." segment, which stays in the result.
C2_Witness ==
    /\ pc = "composed"
    /\ thrown = "none"
    /\ fp.is_absolute_
    /\ fp.platform_ = WINDOWS
    /\ other.path_ = <<(<<Dot, Dot>>)>>
    /\ returned.path_[Len(returned.path_)] = <<Dot, Dot>>

\* C3: WINDOWS parsing.  The value is absolute exactly when the string starts
\* with an ASCII letter, ':' and a separator; its segments are then the drive
\* designator followed by the maximal non-separator substrings of the rest,
\* and otherwise the maximal non-separator substrings of the whole string.
C3_WindowsParse ==
    (pc = "set" /\ platform = WINDOWS) =>
        /\ fp.is_absolute_ = HasDrivePrefix(path_str)
        /\ fp.path_ =
              IF HasDrivePrefix(path_str)
              THEN <<SubSeq(path_str, 1, 2)>>
                       \o MaximalSegments(SubSeq(path_str, 4, Len(path_str)),
                                          {Slash, Backslash})
              ELSE MaximalSegments(path_str, {Slash, Backslash})

\* C4: segment invariant.  No path value the program holds has an empty
\* segment or a segment with a separator of its own syntax.
C4_SegmentInvariant ==
    \A v \in {fp, other, reparsed, result, returned} :
        IsPathValue(v) => WellFormedSegments(v)

\* C5: absolute-flag invariant.  The POSIX serialization of an absolute POSIX
\* value begins with exactly one '/', and an absolute WINDOWS value has a
\* drive designator as its first segment.
C5_AbsoluteFlagInvariant ==
    /\ (pc = "str" /\ fault = "none" /\ target = UNIX
            /\ fp.is_absolute_ /\ fp.platform_ = UNIX) =>
          /\ Len(str) >= 1
          /\ str[1] = Slash
          /\ Len(str) >= 2 => str[2] # Slash
    /\ (fp.is_absolute_ /\ fp.platform_ = WINDOWS) =>
          /\ fp.path_ # <<>>
          /\ IsDriveDesignator(fp.path_[1])

\* C6: serializing a value with no segments and a false absolute flag gives
\* the empty string, and to_str never calls pop_back on an empty result.
C6_EmptySerialization ==
    /\ ~popped_empty
    /\ (pc \in {"str", "str_default"} /\ empty(fp) /\ ~fp.is_absolute_) =>
          (str = <<>> /\ fault = "none")

\* C7: parsing the empty string gives no segments (empty() holds and
\* filename() is "") and a false absolute flag; split gives the empty
\* sequence for the empty string.
C7_EmptyString ==
    (pc = "set" /\ path_str = <<>>) =>
        /\ Len(fp.path_) = 0
        /\ empty(fp)
        /\ filename(fp) = <<>>
        /\ ~fp.is_absolute_
        /\ split(path_str, Separators(platform)) = <<>>

\* C8 as stated: a non-empty string made only of separators of its syntax
\* parses to an absolute value with no segments, in either syntax.
C8_OnlySeparatorsAbsolute ==
    (pc = "set" /\ OnlySeparators(path_str, platform)) =>
        (fp.is_absolute_ /\ fp.path_ = <<>>)

\* C8 as amended: such a string parses to a value with no segments, which is
\* absolute in POSIX syntax and relative in WINDOWS syntax.
C8_OnlySeparators ==
    (pc = "set" /\ OnlySeparators(path_str, platform)) =>
        /\ fp.path_ = <<>>
        /\ fp.is_absolute_ = (platform = UNIX)

\* C8's case: a WINDOWS string made of both separators has been parsed, to a
\* relative value with no segments.
C8_Witness ==
    /\ pc = "set"
    /\ platform = WINDOWS
    /\ path_str = <<Backslash, Slash>>
    /\ fp.path_ = <<>>
    /\ ~fp.is_absolute_

\* C9: the serializer's result is the segments joined by the target's
\* separator, no trailing separator, after one separator of the target when
\* the value is absolute and POSIX.  Stated on the runs in which to_str has
\* defined behaviour.
C9_Serializer ==
    (pc = "str" /\ fault = "none") => str = Serialized(fp, target)

\* C10: parent_path leaves the receiver alone; its value has the receiver's
\* syntax and absolute flag, and the receiver's segments without the last
\* one, or with ".." appended when the last one is "." or ".."; a relative
\* receiver gets that value back; for an absolute receiver its serialization
\* is handed to the resolution, and begins with '/' when the receiver is POSIX.
C10_ParentPath ==
    (pc = "parent" /\ fault = "none") =>
        /\ fp = set(path_str, platform)
        /\ result.platform_ = fp.platform_
        /\ result.is_absolute_ = fp.is_absolute_
        /\ (~empty(fp) /\ filename(fp) \notin {<<Dot>>, <<Dot, Dot>>}) =>
              result.path_ = SubSeq(fp.path_, 1, Len(fp.path_) - 1)
        /\ (~empty(fp) /\ filename(fp) \in {<<Dot>>, <<Dot, Dot>>}) =>
              result.path_ = Append(fp.path_, <<Dot, Dot>>)
        /\ ~fp.is_absolute_ => returned = result
        /\ fp.is_absolute_ => handed = Serialized(result, native)
        /\ (fp.is_absolute_ /\ fp.platform_ = UNIX) =>
              (Len(handed) >= 1 /\ handed[1] = Slash)

====
